---- MODULE Spec2Model ----
(***************************************************************************)
(* A model of the caching proxy's two concurrent cores:                    *)
(*   - the worker pool of src/src/thread_pool.c (a bounded ring buffer     *)
(*     guarded by one mutex and two conditions, executor threads, and      *)
(*     thread_pool_shutdown);                                              *)
(*   - the response cache of src/src/cache.c (an array of bucket chains    *)
(*     with per-node read/write locks and the garbage collector thread).   *)
(* Each thread's position in its function is a program counter; a step is  *)
(* the code between two points at which another thread can interfere.      *)
(***************************************************************************)
EXTENDS Integers, Sequences, FiniteSets, TLC

(***************************************************************************)
(* Bounds of the worker pool model.                                        *)
(***************************************************************************)
\* task_queue_capacity and executor_count of thread_pool_create, and the
\* number of thread_pool_execute calls that pass the test at entry.
QueueCapacity == 2
NumExecutors == 2
MaxCalls == 3

\* Two threads call thread_pool_execute; threads are numbered, submitters
\* first.
Submitters == {1, 2}
Executors == {2 + i : i \in 1..NumExecutors}
PoolThreads == Submitters \cup Executors
Slots == 0..(QueueCapacity - 1)
CallIds == 1..MaxCalls

\* No thread / NULL.
NoThread == 0
\* A task_t as calloc leaves it (id 0, arg NULL).
ZeroTask == [id |-> 0, arg |-> 0]

VARIABLES
    \* struct thread_pool_t
    tasks, size, front, rear, shutdown, mutex,
    \* static long id_counter
    id_counter,
    \* position of every submitter and executor, and of thread_pool_shutdown
    pc, sdpc,
    \* the argument of a submitter's current call, and the task_t an executor
    \* copied out of the ring (its local `task`)
    arg, task,
    \* a thread touched the pool's memory after thread_pool_shutdown freed it
    uaf,
    \* history: the calls made, how often each call's routine was invoked,
    \* and the calls enqueued and not yet dequeued (oldest first)
    calls, runs, pending

poolVars == <<tasks, size, front, rear, shutdown, mutex, id_counter, pc, sdpc,
              arg, task, uaf, calls, runs, pending>>

(***************************************************************************)
(* Bounds of the cache model.                                              *)
(***************************************************************************)
\* capacity and cache_expired_time_ms of cache_create (milliseconds), the
\* number of nodes ever allocated, the last millisecond of the clock, and
\* the number of scans the garbage collector makes.
CacheCapacity == 1
ExpiredTimeMs == 2
MaxNodes == 2
MaxTime == 3
MaxScans == 2

\* Threads that call the cache: two clients and the garbage collector.
Clients == {1, 2}
Collector == 3
CacheThreads == Clients \cup {Collector}

Buckets == 0..(CacheCapacity - 1)
\* Node addresses; NULL is 0.  A node and the entry it owns are allocated
\* and destroyed together, so one address names both.
Addrs == 1..MaxNodes
NULL == 0

\* Fingerprints (request bytes).  KeyA and KeyB differ in their first byte;
\* KeyZ1 and KeyZ2 have the same length and differ only after a zero byte.
KeyA == <<1>>
KeyB == <<2>>
KeyZ1 == <<3, 0, 1>>
KeyZ2 == <<3, 0, 2>>
NoKey == <<>>

VARIABLES
    \* struct cache_t: the bucket array and garbage_collector_running
    array, running,
    \* cache_destroy: the position of its caller
    dpc,
    \* the heap of cache_node_t: whether the address is unallocated, live or
    \* freed, and the node's fields (a freed block keeps what it held)
    nstate, nkey, nnext, ntime, readers, nextNode,
    \* wall clock, in milliseconds
    now,
    \* per thread: position in cache_get / cache_add / cache_delete, the
    \* request, index, curr and prev of the call, and the last call's result
    cpc, ckey, cidx, ccurr, cprev, cres,
    \* garbage_collector_routine: position, i, curr, next, curr_time, the
    \* start of its usleep, the scans it has begun, and the read locks of
    \* line 245 it holds on each node
    gpc, gi, gcurr, gnext, gtime, gwake, scans, gheld,
    \* undefined behaviour that has happened: "uaf" (a freed node was locked
    \* or read), "double_free", "destroy_locked" (a node was destroyed while
    \* its rwlock was held), "relock" (a thread asked for the write lock of
    \* an rwlock it holds for reading)
    faults

heapVars == <<array, nstate, nkey, nnext, ntime, readers, nextNode>>
callVars == <<cpc, ckey, cidx, ccurr, cprev, cres>>
gcVars == <<gpc, gi, gcurr, gnext, gtime, gwake, scans, gheld>>
cacheVars == <<heapVars, callVars, gcVars, running, dpc, now, faults>>

(***************************************************************************)
(* One cache entry: its response message and its readiness coordinator.    *)
(***************************************************************************)
\* The number of byte blocks the producer appends at most.
MaxBlocks == 2

\* The byte blocks a producer may append, and the entry's subscribers.
Blocks == {1, 2}
Subscribers == {1, 2}

VARIABLES
    \* the response message: the blocks appended so far and the complete flag
    response, complete,
    \* per subscriber: its position (idle, ready, waiting on the coordinator,
    \* eof), its cursor into the response, and the blocks it has been given
    spc, cursor, seen

entryVars == <<response, complete, spc, cursor, seen>>

(***************************************************************************)
(* A call of hash(): its arguments and its result.                         *)
(***************************************************************************)
\* The longest request and the largest capacity hash() is called with.
MaxHashLen == 2
MaxHashCapacity == 3

\* Byte values of a request, as stored (0..255).
HashBytes == {0, 1, 127, 128, 255}

VARIABLES
    \* request and size of the call, the value returned, and whether the
    \* call has returned
    hreq, hcap, hres, hpc

hashVars == <<hreq, hcap, hres, hpc>>

vars == <<poolVars, cacheVars, entryVars, hashVars>>

\* What a step of one part of the program leaves alone.
nonPoolVars == <<cacheVars, entryVars, hashVars>>
nonCacheVars == <<poolVars, entryVars, hashVars>>
nonEntryVars == <<poolVars, cacheVars, hashVars>>
nonHashVars == <<poolVars, cacheVars, entryVars>>

(***************************************************************************)
(* thread_pool_create                                                      *)
(***************************************************************************)
PoolInit ==
    /\ tasks = [i \in Slots |-> ZeroTask]
    /\ size = 0
    /\ front = 0
    /\ rear = 0
    /\ shutdown = FALSE
    /\ mutex = NoThread
    /\ id_counter = 0
    /\ pc = [t \in PoolThreads |-> IF t \in Submitters THEN "idle" ELSE "lock"]
    /\ sdpc = "idle"
    /\ arg = [s \in Submitters |-> 0]
    /\ task = [e \in Executors |-> ZeroTask]
    /\ uaf = FALSE
    /\ calls = 0
    /\ runs = [c \in CallIds |-> 0]
    /\ pending = <<>>

(***************************************************************************)
(* cache_create                                                            *)
(***************************************************************************)
\* cache.h lines 25-27
SUCCESS == 0
NOT_FOUND == -2

\* What a thread's last call returned: for cache_get the node whose entry
\* it returned (NULL: absent), for the others the status.
NoResult == [op |-> "none", key |-> NoKey, val |-> 0]

CacheInit ==
    /\ array = [i \in Buckets |-> NULL]
    /\ running = TRUE
    /\ dpc = "idle"
    /\ nstate = [a \in Addrs |-> "unallocated"]
    /\ nkey = [a \in Addrs |-> NoKey]
    /\ nnext = [a \in Addrs |-> NULL]
    /\ ntime = [a \in Addrs |-> 0]
    /\ readers = [a \in Addrs |-> 0]
    /\ nextNode = 1
    /\ now = 0
    /\ cpc = [t \in CacheThreads |-> "idle"]
    /\ ckey = [t \in CacheThreads |-> NoKey]
    /\ cidx = [t \in CacheThreads |-> 0]
    /\ ccurr = [t \in CacheThreads |-> NULL]
    /\ cprev = [t \in CacheThreads |-> NULL]
    /\ cres = [t \in CacheThreads |-> NoResult]
    /\ gpc = "loop"
    /\ gi = 0
    /\ gcurr = NULL
    /\ gnext = NULL
    /\ gtime = 0
    /\ gwake = 0
    /\ scans = 0
    /\ gheld = [a \in Addrs |-> 0]
    /\ faults = {}

\* An entry created with an empty response; no subscriber yet.
EntryInit ==
    /\ response = <<>>
    /\ complete = FALSE
    /\ spc = [s \in Subscribers |-> "idle"]
    /\ cursor = [s \in Subscribers |-> 0]
    /\ seen = [s \in Subscribers |-> <<>>]

\* No call of hash() on its own is in progress.
HashIdle ==
    /\ hreq = <<>>
    /\ hcap = 1
    /\ hres = 0
    /\ hpc = "done"

\* The state after thread_pool_create, cache_create and the creation of an
\* entry.
Init == PoolInit /\ CacheInit /\ EntryInit /\ HashIdle

\* thread_pool_shutdown has freed the pool (line 149).
PoolFreed == sdpc = "done"

\* A step that reads or writes the pool object: after thread_pool_shutdown
\* has freed it the access is a use of freed memory, which is recorded and
\* then proceeds on what the freed block still holds.
TouchPool == uaf' = (uaf \/ PoolFreed)

\* pthread_cond_signal: at most one waiter of the condition is released and
\* must reacquire the mutex (it is back at "lock"); with no waiter the signal
\* is lost.
CondSignal(pcs, label) ==
    IF \E t \in PoolThreads : pcs[t] = label
    THEN {[pcs EXCEPT ![t] = "lock"] : t \in {u \in PoolThreads : pcs[u] = label}}
    ELSE {pcs}

\* pthread_cond_broadcast: every waiter of the condition is released.
CondBroadcast(pcs, label) ==
    [t \in PoolThreads |-> IF pcs[t] = label THEN "lock" ELSE pcs[t]]

\* rear advanced without the wrap at capacity
NextRear_NoWrap(r) == r + 1

\* pool->rear = (pool->rear + 1) % pool->capacity
NextRear(r) == (r + 1) % QueueCapacity

\* front left where it is
NextFront_Stay(f) == f

\* pool->front = (pool->front + 1) % pool->capacity
NextFront(f) == (f + 1) % QueueCapacity

(***************************************************************************)
(* thread_pool_execute, called by submitter s                              *)
(***************************************************************************)
\* line 96: the unlocked test of the shutdown flag at entry.  The calls that
\* pass it are numbered, and the number is the call's argument.
ExecEntry(s) ==
    /\ pc[s] = "idle"
    /\ IF shutdown
       THEN /\ pc' = [pc EXCEPT ![s] = "ret96"]
            /\ UNCHANGED <<calls, arg>>
       ELSE /\ calls < MaxCalls
            /\ calls' = calls + 1
            /\ arg' = [arg EXCEPT ![s] = calls + 1]
            /\ pc' = [pc EXCEPT ![s] = "lock"]
    /\ TouchPool
    /\ UNCHANGED <<tasks, size, front, rear, shutdown, mutex, id_counter, sdpc,
                   task, runs, pending>>
    /\ UNCHANGED nonPoolVars

\* line 101 (and the reacquisition of the mutex on return from
\* pthread_cond_wait, line 103)
ExecLock(s) ==
    /\ pc[s] = "lock"
    /\ mutex = NoThread
    /\ mutex' = s
    /\ pc' = [pc EXCEPT ![s] = "while"]
    /\ TouchPool
    /\ UNCHANGED <<arg, tasks, size, front, rear, shutdown, id_counter, sdpc,
                   task, calls, runs, pending>>
    /\ UNCHANGED nonPoolVars

\* line 103: the loop condition
ExecWhile(s) ==
    /\ pc[s] = "while"
    /\ pc' = [pc EXCEPT ![s] = IF size = QueueCapacity /\ ~shutdown
                               THEN "callwait" ELSE "if105"]
    /\ TouchPool
    /\ UNCHANGED <<arg, tasks, size, front, rear, shutdown, mutex,
                   id_counter, sdpc, task, calls, runs, pending>>
    /\ UNCHANGED nonPoolVars

\* line 103: pthread_cond_wait(&pool->not_full_cond, &pool->mutex) releases
\* the mutex and blocks
ExecWait(s) ==
    /\ pc[s] = "callwait"
    /\ mutex' = NoThread
    /\ pc' = [pc EXCEPT ![s] = "wait_nf"]
    /\ TouchPool
    /\ UNCHANGED <<arg, tasks, size, front, rear, shutdown, id_counter, sdpc,
                   task, calls, runs, pending>>
    /\ UNCHANGED nonPoolVars

\* line 105: the test of the shutdown flag under the mutex
ExecIf105(s) ==
    /\ pc[s] = "if105"
    /\ pc' = [pc EXCEPT ![s] = IF shutdown THEN "ret105" ELSE "enqueue"]
    /\ TouchPool
    /\ UNCHANGED <<arg, tasks, size, front, rear, shutdown, mutex,
                   id_counter, sdpc, task, calls, runs, pending>>
    /\ UNCHANGED nonPoolVars

\* the return of lines 106-107 without the unlock
ExecShutdownReturn_KeepMutex(s) ==
    /\ pc[s] \in {"ret96", "ret105"}
    /\ arg' = [arg EXCEPT ![s] = 0]
    /\ pc' = [pc EXCEPT ![s] = "idle"]
    /\ uaf' = (uaf \/ (PoolFreed /\ pc[s] = "ret105"))
    /\ UNCHANGED <<tasks, size, front, rear, shutdown, mutex,
                   id_counter, sdpc, task, calls, runs, pending>>
    /\ UNCHANGED nonPoolVars

\* lines 97-98 (log, return) and lines 106-107 (unlock, return)
ExecShutdownReturn(s) ==
    /\ pc[s] \in {"ret96", "ret105"}
    /\ mutex' = IF pc[s] = "ret105" THEN NoThread ELSE mutex
    /\ arg' = [arg EXCEPT ![s] = 0]
    /\ pc' = [pc EXCEPT ![s] = "idle"]
    /\ uaf' = (uaf \/ (PoolFreed /\ pc[s] = "ret105"))
    /\ UNCHANGED <<tasks, size, front, rear, shutdown, id_counter, sdpc,
                   task, calls, runs, pending>>
    /\ UNCHANGED nonPoolVars

\* lines 110-118: write the task at rear, advance rear, count it, signal
\* not_empty, unlock and return.  The mutex is held from the test of line
\* 105 to the unlock, so no other thread of the pool sees the steps apart.
\* The call's argument identifies the call.
ExecEnqueue(s) ==
    /\ pc[s] = "enqueue"
    /\ tasks' = [tasks EXCEPT ![rear] = [id |-> id_counter, arg |-> arg[s]]]
    /\ id_counter' = id_counter + 1
    /\ rear' = NextRear(rear)
    /\ size' = size + 1
    /\ pending' = Append(pending, arg[s])
    /\ pc' \in CondSignal([pc EXCEPT ![s] = "idle"], "wait_ne")
    /\ mutex' = NoThread
    /\ arg' = [arg EXCEPT ![s] = 0]
    /\ TouchPool
    /\ UNCHANGED <<front, shutdown, sdpc, task, calls, runs>>
    /\ UNCHANGED nonPoolVars

(***************************************************************************)
(* executor_routine, run by executor e                                     *)
(***************************************************************************)
\* line 162 (and the reacquisition of the mutex on return from
\* pthread_cond_wait, line 164)
WorkerLock(e) ==
    /\ pc[e] = "lock"
    /\ mutex = NoThread
    /\ mutex' = e
    /\ pc' = [pc EXCEPT ![e] = "while"]
    /\ TouchPool
    /\ UNCHANGED <<arg, tasks, size, front, rear, shutdown, id_counter, sdpc,
                   task, calls, runs, pending>>
    /\ UNCHANGED nonPoolVars

\* line 164: the loop condition
WorkerWhile(e) ==
    /\ pc[e] = "while"
    /\ pc' = [pc EXCEPT ![e] = IF size = 0 /\ ~shutdown THEN "callwait" ELSE "if166"]
    /\ TouchPool
    /\ UNCHANGED <<arg, tasks, size, front, rear, shutdown, mutex,
                   id_counter, sdpc, task, calls, runs, pending>>
    /\ UNCHANGED nonPoolVars

\* line 164: pthread_cond_wait(&pool->not_empty_cond, &pool->mutex)
WorkerWait(e) ==
    /\ pc[e] = "callwait"
    /\ mutex' = NoThread
    /\ pc' = [pc EXCEPT ![e] = "wait_ne"]
    /\ TouchPool
    /\ UNCHANGED <<arg, tasks, size, front, rear, shutdown, id_counter, sdpc,
                   task, calls, runs, pending>>
    /\ UNCHANGED nonPoolVars

\* line 166: the test of the shutdown flag under the mutex
WorkerIf166(e) ==
    /\ pc[e] = "if166"
    /\ pc' = [pc EXCEPT ![e] = IF shutdown THEN "exit" ELSE "dequeue"]
    /\ TouchPool
    /\ UNCHANGED <<arg, tasks, size, front, rear, shutdown, mutex,
                   id_counter, sdpc, task, calls, runs, pending>>
    /\ UNCHANGED nonPoolVars

\* lines 167-168: unlock and pthread_exit
WorkerExit(e) ==
    /\ pc[e] = "exit"
    /\ mutex' = NoThread
    /\ pc' = [pc EXCEPT ![e] = "exited"]
    /\ TouchPool
    /\ UNCHANGED <<arg, tasks, size, front, rear, shutdown, id_counter, sdpc,
                   task, calls, runs, pending>>
    /\ UNCHANGED nonPoolVars

\* the dequeue of lines 171-177 without the advance of front
WorkerDequeue_KeepFront(e) ==
    /\ pc[e] = "dequeue"
    /\ task' = [task EXCEPT ![e] = tasks[front]]
    /\ size' = size - 1
    /\ pending' = Tail(pending)
    /\ pc' \in CondSignal([pc EXCEPT ![e] = "run"], "wait_nf")
    /\ mutex' = NoThread
    /\ TouchPool
    /\ UNCHANGED <<arg, tasks, front, rear, shutdown, id_counter,
                   sdpc, calls, runs>>
    /\ UNCHANGED nonPoolVars

\* lines 171-177: copy the task at front, advance front, uncount it, signal
\* not_full, unlock (all under the mutex)
WorkerDequeue(e) ==
    /\ pc[e] = "dequeue"
    /\ task' = [task EXCEPT ![e] = tasks[front]]
    /\ front' = NextFront(front)
    /\ size' = size - 1
    /\ pending' = Tail(pending)
    /\ pc' \in CondSignal([pc EXCEPT ![e] = "run"], "wait_nf")
    /\ mutex' = NoThread
    /\ TouchPool
    /\ UNCHANGED <<arg, tasks, rear, shutdown, id_counter, sdpc,
                   calls, runs>>
    /\ UNCHANGED nonPoolVars

\* lines 179-181: task.routine(task.arg) on the executor's copy of the task
\* (dead afterwards), then back to the top of the loop
WorkerRun(e) ==
    /\ pc[e] = "run"
    /\ runs' = [runs EXCEPT ![task[e].arg] = @ + 1]
    /\ task' = [task EXCEPT ![e] = ZeroTask]
    /\ pc' = [pc EXCEPT ![e] = "lock"]
    /\ UNCHANGED <<arg, tasks, size, front, rear, shutdown, mutex,
                   id_counter, sdpc, uaf, calls, pending>>
    /\ UNCHANGED nonPoolVars

(***************************************************************************)
(* thread_pool_shutdown, called once                                       *)
(***************************************************************************)
\* lines 122-124: pool->shutdown = 1, without the mutex
ShutdownSetFlag ==
    /\ sdpc = "idle"
    /\ shutdown' = TRUE
    /\ sdpc' = "bcast_ne"
    /\ UNCHANGED <<arg, tasks, size, front, rear, mutex, id_counter, pc,
                   task, uaf, calls, runs, pending>>
    /\ UNCHANGED nonPoolVars

\* line 126: pthread_cond_broadcast(&pool->not_empty_cond), without the mutex
ShutdownBroadcastNotEmpty ==
    /\ sdpc = "bcast_ne"
    /\ pc' = CondBroadcast(pc, "wait_ne")
    /\ sdpc' = "bcast_nf"
    /\ UNCHANGED <<arg, tasks, size, front, rear, shutdown, mutex,
                   id_counter, task, uaf, calls, runs, pending>>
    /\ UNCHANGED nonPoolVars

\* line 127: pthread_cond_broadcast(&pool->not_full_cond), without the mutex
ShutdownBroadcastNotFull ==
    /\ sdpc = "bcast_nf"
    /\ pc' = CondBroadcast(pc, "wait_nf")
    /\ sdpc' = "grace"
    /\ UNCHANGED <<arg, tasks, size, front, rear, shutdown, mutex,
                   id_counter, task, uaf, calls, runs, pending>>
    /\ UNCHANGED nonPoolVars

\* lines 129-140: for each executor, poll until it has exited or five
\* seconds have passed, then detach it.  The loop ends whether or not the
\* executors have exited.
ShutdownGrace ==
    /\ sdpc = "grace"
    /\ sdpc' = "free"
    /\ UNCHANGED <<arg, tasks, size, front, rear, shutdown, mutex,
                   id_counter, pc, task, uaf, calls, runs, pending>>
    /\ UNCHANGED nonPoolVars

\* lines 142-149: free the ring and the executors array, destroy the mutex
\* and the conditions, free the pool
ShutdownFree ==
    /\ sdpc = "free"
    /\ sdpc' = "done"
    /\ UNCHANGED <<arg, tasks, size, front, rear, shutdown, mutex,
                   id_counter, pc, task, uaf, calls, runs, pending>>
    /\ UNCHANGED nonPoolVars

SubmitterStep(s) ==
    \/ ExecEntry(s)
    \/ ExecLock(s)
    \/ ExecWhile(s)
    \/ ExecWait(s)
    \/ ExecIf105(s)
    \/ ExecShutdownReturn(s)
    \/ ExecEnqueue(s)

\* the steps of a call in progress (everything but the decision to call)
SubmitterProgress(s) ==
    \/ ExecLock(s)
    \/ ExecWhile(s)
    \/ ExecWait(s)
    \/ ExecIf105(s)
    \/ ExecShutdownReturn(s)
    \/ ExecEnqueue(s)

WorkerStep(e) ==
    \/ WorkerLock(e)
    \/ WorkerWhile(e)
    \/ WorkerWait(e)
    \/ WorkerIf166(e)
    \/ WorkerExit(e)
    \/ WorkerDequeue(e)
    \/ WorkerRun(e)

ShutdownProgress ==
    \/ ShutdownBroadcastNotEmpty
    \/ ShutdownBroadcastNotFull
    \/ ShutdownGrace
    \/ ShutdownFree

PoolNext ==
    \/ \E s \in Submitters : SubmitterStep(s)
    \/ \E e \in Executors : WorkerStep(e)
    \/ ShutdownSetFlag
    \/ ShutdownProgress

\* Every thread that can take a step eventually takes one (the threads are
\* OS threads, none is starved for ever); whether and when a submitter
\* calls thread_pool_execute, and whether thread_pool_shutdown is called,
\* is up to the callers.
PoolFairness ==
    /\ \A s \in Submitters : WF_vars(SubmitterProgress(s))
    /\ \A e \in Executors : WF_vars(WorkerStep(e))
    /\ WF_vars(ShutdownProgress)

\* The worker pool on its own: the cache is not touched.
PoolSpec == Init /\ [][PoolNext]_vars /\ PoolFairness

(***************************************************************************)
(* The cache: pure helpers                                                 *)
(***************************************************************************)
\* C's % on ints: the remainder has the sign of the dividend.
CRem(a, n) == IF a >= 0 THEN a % n ELSE -((-a) % n)

\* request[i] is a char, which the build reads as signed: the stored bytes
\* 128..255 are the values -128..-1.
SignedChar(b) == IF b >= 128 THEN b - 256 ELSE b

\* hash(): h = 0; for each byte, h = (h * 31 + byte) % size.
RECURSIVE HashFrom(_, _, _, _)
HashFrom(request, i, h, n) ==
    IF i > Len(request) THEN h
    ELSE HashFrom(request, i + 1, CRem(h * 31 + SignedChar(request[i]), n), n)

hash(request, n) == HashFrom(request, 1, 0, n)

\* strncmp(a, b, n): 0 when the first n bytes agree or the strings agree up
\* to and including a zero byte; otherwise the difference of the first
\* bytes that differ.
RECURSIVE StrncmpFrom(_, _, _, _)
StrncmpFrom(a, b, n, i) ==
    IF i > n THEN 0
    ELSE IF a[i] # b[i] THEN a[i] - b[i]
    ELSE IF a[i] = 0 THEN 0
    ELSE StrncmpFrom(a, b, n, i + 1)

strncmp(a, b, n) == StrncmpFrom(a, b, n, 1)

\* lines 78 and 131: curr->entry->request_len == request_len &&
\* strncmp(curr->entry->request, request, request_len) == 0
RequestMatches(stored, request) ==
    /\ Len(stored) = Len(request)
    /\ strncmp(stored, request, Len(request)) = 0

\* The locals of a call are dead once it has returned.
ClearLocals(t) ==
    /\ ckey' = [ckey EXCEPT ![t] = NoKey]
    /\ cidx' = [cidx EXCEPT ![t] = 0]
    /\ ccurr' = [ccurr EXCEPT ![t] = NULL]
    /\ cprev' = [cprev EXCEPT ![t] = NULL]

\* Locking or reading the node at address a: a use of freed memory when the
\* node has been destroyed (the access then proceeds on what the block
\* still holds).
Deref(a) == IF nstate[a] = "live" THEN {} ELSE {"uaf"}

\* a read of a field of the cache_t after cache_destroy has freed it (line
\* 187) is a use after free
CacheDeref == IF dpc = "done" THEN {"uaf"} ELSE {}

(***************************************************************************)
(* cache_get, called by thread t                                           *)
(***************************************************************************)
\* lines 71-74
CacheGetStart(t, k) ==
    /\ cpc[t] = "idle"
    /\ ckey' = [ckey EXCEPT ![t] = k]
    /\ cidx' = [cidx EXCEPT ![t] = hash(k, CacheCapacity)]
    /\ ccurr' = [ccurr EXCEPT ![t] = array[hash(k, CacheCapacity)]]
    /\ cprev' = [cprev EXCEPT ![t] = NULL]
    /\ cres' = [cres EXCEPT ![t] = NoResult]
    /\ cpc' = [cpc EXCEPT ![t] = "get_loop"]
    /\ UNCHANGED <<heapVars, gcVars, running, dpc, now, faults>>
    /\ UNCHANGED nonCacheVars

\* lines 75-76 and 88: leave the loop with NULL, or read-lock curr
CacheGetLoop(t) ==
    /\ cpc[t] = "get_loop"
    /\ IF ccurr[t] = NULL
       THEN /\ cres' = [cres EXCEPT ![t] = [op |-> "get", key |-> ckey[t], val |-> NULL]]
            /\ cpc' = [cpc EXCEPT ![t] = "idle"]
            /\ ClearLocals(t)
            /\ UNCHANGED <<readers, faults>>
       ELSE /\ readers' = [readers EXCEPT ![ccurr[t]] = @ + 1]
            /\ faults' = faults \cup Deref(ccurr[t])
            /\ cpc' = [cpc EXCEPT ![t] = "get_cmp"]
            /\ UNCHANGED <<cres, ckey, cidx, ccurr, cprev>>
    /\ UNCHANGED <<array, nstate, nkey, nnext, ntime, nextNode, gcVars, running, dpc,
                   now>>
    /\ UNCHANGED nonCacheVars

\* lines 78-80 (a match: stamp the node, unlock it) and lines 84-86 (no
\* match: step to curr->next, then unlock the node just left)
CacheGetCompare(t) ==
    /\ cpc[t] = "get_cmp"
    /\ faults' = faults \cup Deref(ccurr[t])
    /\ readers' = [readers EXCEPT ![ccurr[t]] = @ - 1]
    /\ IF RequestMatches(nkey[ccurr[t]], ckey[t])
       THEN /\ ntime' = [ntime EXCEPT ![ccurr[t]] = now]
            /\ cpc' = [cpc EXCEPT ![t] = "get_ret"]
            /\ UNCHANGED <<ccurr, cprev>>
       ELSE /\ cprev' = [cprev EXCEPT ![t] = ccurr[t]]
            /\ ccurr' = [ccurr EXCEPT ![t] = nnext[ccurr[t]]]
            /\ cpc' = [cpc EXCEPT ![t] = "get_loop"]
            /\ UNCHANGED ntime
    /\ UNCHANGED <<array, nstate, nkey, nnext, nextNode, ckey, cidx, cres,
                   gcVars, running, dpc, now>>
    /\ UNCHANGED nonCacheVars

\* line 81: return curr->entry, read after the node was unlocked
CacheGetReturn(t) ==
    /\ cpc[t] = "get_ret"
    /\ faults' = faults \cup Deref(ccurr[t])
    /\ cres' = [cres EXCEPT ![t] = [op |-> "get", key |-> ckey[t], val |-> ccurr[t]]]
    /\ cpc' = [cpc EXCEPT ![t] = "idle"]
    /\ ClearLocals(t)
    /\ UNCHANGED <<heapVars, gcVars, running, dpc, now>>
    /\ UNCHANGED nonCacheVars

(***************************************************************************)
(* cache_add, called by thread t with a fresh entry for request k          *)
(***************************************************************************)
\* lines 101-104: cache_node_create (entry, last_modified_time = now, lock
\* initialised, next = NULL) and the bucket index
CacheAddStart(t, k) ==
    /\ cpc[t] = "idle"
    /\ nextNode <= MaxNodes
    /\ nstate' = [nstate EXCEPT ![nextNode] = "live"]
    /\ nkey' = [nkey EXCEPT ![nextNode] = k]
    /\ ntime' = [ntime EXCEPT ![nextNode] = now]
    /\ nnext' = [nnext EXCEPT ![nextNode] = NULL]
    /\ readers' = [readers EXCEPT ![nextNode] = 0]
    /\ nextNode' = nextNode + 1
    /\ ckey' = [ckey EXCEPT ![t] = k]
    /\ cidx' = [cidx EXCEPT ![t] = hash(k, CacheCapacity)]
    /\ ccurr' = [ccurr EXCEPT ![t] = nextNode]
    /\ cprev' = [cprev EXCEPT ![t] = NULL]
    /\ cres' = [cres EXCEPT ![t] = NoResult]
    /\ cpc' = [cpc EXCEPT ![t] = "add_link"]
    /\ UNCHANGED <<array, gcVars, running, dpc, now, faults>>
    /\ UNCHANGED nonCacheVars

\* lines 106-108: node->next = cache->array[index], under the new node's
\* own write lock
CacheAddLink(t) ==
    /\ cpc[t] = "add_link"
    /\ nnext' = [nnext EXCEPT ![ccurr[t]] = array[cidx[t]]]
    /\ cpc' = [cpc EXCEPT ![t] = "add_publish"]
    /\ UNCHANGED <<array, nstate, nkey, ntime, readers, nextNode, ckey, cidx,
                   ccurr, cprev, cres, gcVars, running, dpc, now, faults>>
    /\ UNCHANGED nonCacheVars

\* lines 110-113: cache->array[index] = node; return SUCCESS
CacheAddPublish(t) ==
    /\ cpc[t] = "add_publish"
    /\ array' = [array EXCEPT ![cidx[t]] = ccurr[t]]
    /\ cres' = [cres EXCEPT ![t] = [op |-> "add", key |-> ckey[t], val |-> SUCCESS]]
    /\ cpc' = [cpc EXCEPT ![t] = "idle"]
    /\ ClearLocals(t)
    /\ UNCHANGED <<nstate, nkey, nnext, ntime, readers, nextNode, gcVars,
                   running, dpc, now, faults>>
    /\ UNCHANGED nonCacheVars

(***************************************************************************)
(* cache_delete, called by thread t                                        *)
(***************************************************************************)
\* lines 122-127: the bucket index, curr = head, NOT_FOUND for an empty
\* bucket, prev = NULL
DeleteEnter(t, k) ==
    IF array[hash(k, CacheCapacity)] = NULL
    THEN /\ cres' = [cres EXCEPT ![t] = [op |-> "delete", key |-> k, val |-> NOT_FOUND]]
         /\ cpc' = [cpc EXCEPT ![t] = "idle"]
         /\ ClearLocals(t)
    ELSE /\ ckey' = [ckey EXCEPT ![t] = k]
         /\ cidx' = [cidx EXCEPT ![t] = hash(k, CacheCapacity)]
         /\ ccurr' = [ccurr EXCEPT ![t] = array[hash(k, CacheCapacity)]]
         /\ cprev' = [cprev EXCEPT ![t] = NULL]
         /\ cres' = [cres EXCEPT ![t] = NoResult]
         /\ cpc' = [cpc EXCEPT ![t] = "del_loop"]

CacheDeleteStart(t, k) ==
    /\ cpc[t] = "idle"
    /\ DeleteEnter(t, k)
    /\ UNCHANGED <<heapVars, gcVars, running, dpc, now, faults>>
    /\ UNCHANGED nonCacheVars

\* lines 128-129 and 153: leave the loop with NOT_FOUND, or read-lock curr
CacheDeleteLoop(t) ==
    /\ cpc[t] = "del_loop"
    /\ IF ccurr[t] = NULL
       THEN /\ cres' = [cres EXCEPT ![t] =
                          [op |-> "delete", key |-> ckey[t], val |-> NOT_FOUND]]
            /\ cpc' = [cpc EXCEPT ![t] = "idle"]
            /\ ClearLocals(t)
            /\ UNCHANGED <<readers, faults>>
       ELSE /\ readers' = [readers EXCEPT ![ccurr[t]] = @ + 1]
            /\ faults' = faults \cup Deref(ccurr[t])
            /\ cpc' = [cpc EXCEPT ![t] = "del_cmp"]
            /\ UNCHANGED <<cres, ckey, cidx, ccurr, cprev>>
    /\ UNCHANGED <<array, nstate, nkey, nnext, ntime, nextNode, gcVars, running, dpc,
                   now>>
    /\ UNCHANGED nonCacheVars

\* lines 133-134: cache_node_t *next = curr->next;
\*                if (next == NULL) cache->array[index] = NULL;
UnlinkHead(t) ==
    array' = IF nnext[ccurr[t]] = NULL
             THEN [array EXCEPT ![cidx[t]] = NULL]
             ELSE array

\* line 131 with lines 132-134 (a match at the head), the way to line 136
\* (a match further on), or lines 147-150 (no match: step to curr->next and
\* unlock the node just left)
CacheDeleteCompare(t) ==
    /\ cpc[t] = "del_cmp"
    /\ faults' = faults \cup Deref(ccurr[t])
    /\ IF RequestMatches(nkey[ccurr[t]], ckey[t])
       THEN /\ IF cprev[t] = NULL
               THEN /\ UnlinkHead(t)
                    /\ cpc' = [cpc EXCEPT ![t] = "del_destroy"]
               ELSE /\ cpc' = [cpc EXCEPT ![t] = "del_wrlock"]
                    /\ UNCHANGED array
            /\ UNCHANGED <<ccurr, cprev, readers>>
       ELSE /\ cprev' = [cprev EXCEPT ![t] = ccurr[t]]
            /\ ccurr' = [ccurr EXCEPT ![t] = nnext[ccurr[t]]]
            /\ readers' = [readers EXCEPT ![ccurr[t]] = @ - 1]
            /\ cpc' = [cpc EXCEPT ![t] = "del_loop"]
            /\ UNCHANGED array
    /\ UNCHANGED <<nstate, nkey, nnext, ntime, nextNode, ckey, cidx, cres,
                   gcVars, running, dpc, now>>
    /\ UNCHANGED nonCacheVars

\* The read locks thread t itself holds on node a on its way to line 136:
\* only the collector's, taken at line 245 and never released.
OwnReadLocks(t, a) == IF t = Collector THEN gheld[a] ELSE 0

\* lines 136-138: write-lock prev (waits until no thread holds its lock),
\* prev->next = curr->next, unlock prev
CacheDeleteUnlink(t) ==
    /\ cpc[t] = "del_wrlock"
    /\ OwnReadLocks(t, cprev[t]) = 0
    /\ readers[cprev[t]] = 0
    /\ faults' = faults \cup Deref(cprev[t]) \cup Deref(ccurr[t])
    /\ nnext' = [nnext EXCEPT ![cprev[t]] = nnext[ccurr[t]]]
    /\ cpc' = [cpc EXCEPT ![t] = "del_destroy"]
    /\ UNCHANGED <<array, nstate, nkey, ntime, readers, nextNode, ckey, cidx,
                   ccurr, cprev, cres, gcVars, running, dpc, now>>
    /\ UNCHANGED nonCacheVars

\* lines 136-138 when the caller itself holds prev's lock for reading.
\* pthread_rwlock_wrlock is then undefined: the thread blocks for ever, or
\* the call fails with EDEADLK, line 137 writes prev->next without the
\* lock, and the unlock of line 138 gives up one of the thread's read locks.
CacheDeleteRelock(t) ==
    /\ cpc[t] = "del_wrlock"
    /\ OwnReadLocks(t, cprev[t]) > 0
    /\ faults' = faults \cup {"relock"} \cup Deref(cprev[t]) \cup Deref(ccurr[t])
    /\ \/ /\ cpc' = [cpc EXCEPT ![t] = "del_deadlock"]
          /\ UNCHANGED <<nnext, readers, gheld>>
       \/ /\ nnext' = [nnext EXCEPT ![cprev[t]] = nnext[ccurr[t]]]
          /\ readers' = [readers EXCEPT ![cprev[t]] = @ - 1]
          /\ gheld' = [gheld EXCEPT ![cprev[t]] = @ - 1]
          /\ cpc' = [cpc EXCEPT ![t] = "del_destroy"]
    /\ UNCHANGED <<array, nstate, nkey, ntime, nextNode, ckey, cidx, ccurr,
                   cprev, cres, gpc, gi, gcurr, gnext, gtime, gwake, scans,
                   running, dpc, now>>
    /\ UNCHANGED nonCacheVars

\* cache_node_destroy (lines 215-223) after the caller's unlock: the entry
\* is destroyed, the lock destroyed, the node freed.  Destroying a lock that
\* is still held, and freeing a node twice, are undefined.
NodeDestroyFaults(a, held) ==
    (IF nstate[a] = "live" THEN {} ELSE {"uaf", "double_free"})
        \cup (IF held > 0 THEN {"destroy_locked"} ELSE {})

\* lines 141-144: unlock curr, destroy it, return SUCCESS
CacheDeleteDestroy(t) ==
    /\ cpc[t] = "del_destroy"
    /\ readers' = [readers EXCEPT ![ccurr[t]] = @ - 1]
    /\ faults' = faults \cup NodeDestroyFaults(ccurr[t], readers[ccurr[t]] - 1)
    /\ nstate' = [nstate EXCEPT ![ccurr[t]] = "freed"]
    /\ cres' = [cres EXCEPT ![t] = [op |-> "delete", key |-> ckey[t], val |-> SUCCESS]]
    /\ cpc' = [cpc EXCEPT ![t] = "idle"]
    /\ ClearLocals(t)
    /\ UNCHANGED <<array, nkey, nnext, ntime, nextNode, gcVars, running, dpc, now>>
    /\ UNCHANGED nonCacheVars

(***************************************************************************)
(* garbage_collector_routine                                               *)
(***************************************************************************)
\* C's / on integers truncates toward zero.
CDiv(a, n) == IF a >= 0 THEN a \div n ELSE -((-a) \div n)

\* struct timeval of a clock reading in milliseconds.
TvSec(ms) == ms \div 1000
TvUsec(ms) == (ms % 1000) * 1000

\* lines 249-250: (curr_time.tv_sec - last.tv_sec) * 1000 +
\*                (curr_time.tv_usec - last.tv_usec) / 1000
TimeDiffMs(curr_time, last) ==
    (TvSec(curr_time) - TvSec(last)) * 1000
        + CDiv(TvUsec(curr_time) - TvUsec(last), 1000)

\* line 236: MIN(1000 * cache->entry_expired_time_ms / 2, 1000000), in
\* microseconds
SleepUs ==
    IF (1000 * ExpiredTimeMs) \div 2 < 1000000
    THEN (1000 * ExpiredTimeMs) \div 2
    ELSE 1000000

\* lines 235-236: test the running flag, start the usleep
GcLoop ==
    /\ gpc = "loop"
    /\ IF running
       THEN gpc' = "sleep" /\ gwake' = now
       ELSE gpc' = "exited" /\ gwake' = 0
    /\ faults' = faults \cup CacheDeref
    /\ UNCHANGED <<heapVars, callVars, gi, gcurr, gnext, gtime, scans, gheld,
                   running, dpc, now>>
    /\ UNCHANGED nonCacheVars

\* lines 236-240: the usleep ends no sooner than asked (time stands still
\* at MaxTime, where every sleep ends), gettimeofday, i = 0
GcWake ==
    /\ gpc = "sleep"
    /\ (now - gwake) * 1000 >= SleepUs \/ now = MaxTime
    /\ scans < MaxScans \/ ~running
    /\ scans' = IF scans < MaxScans THEN scans + 1 ELSE scans
    /\ gtime' = now
    /\ gi' = 0
    /\ gwake' = 0
    /\ gpc' = "bucket"
    /\ UNCHANGED <<heapVars, callVars, gcurr, gnext, gheld, running, dpc, now,
                   faults>>
    /\ UNCHANGED nonCacheVars

\* lines 240-243: the end of the scan, an empty bucket, or curr = the head
GcBucket ==
    /\ gpc = "bucket"
    /\ IF gi >= CacheCapacity
       THEN gpc' = "loop" /\ gi' = 0 /\ gtime' = 0 /\ UNCHANGED gcurr
       ELSE IF array[gi] = NULL
       THEN gi' = gi + 1 /\ gpc' = "bucket" /\ UNCHANGED <<gcurr, gtime>>
       ELSE gcurr' = array[gi] /\ gpc' = "lock_head" /\ UNCHANGED <<gi, gtime>>
    /\ faults' = faults \cup CacheDeref
    /\ UNCHANGED <<heapVars, callVars, gnext, gwake, scans, gheld, running, dpc,
                   now>>
    /\ UNCHANGED nonCacheVars

\* lines 245-247: read-lock the head (never unlocked again), next = NULL
GcLockHead ==
    /\ gpc = "lock_head"
    /\ readers' = [readers EXCEPT ![gcurr] = @ + 1]
    /\ gheld' = [gheld EXCEPT ![gcurr] = @ + 1]
    /\ faults' = faults \cup Deref(gcurr)
    /\ gnext' = NULL
    /\ gpc' = "inner"
    /\ UNCHANGED <<array, nstate, nkey, nnext, ntime, nextNode, callVars, gi,
                   gcurr, gtime, gwake, scans, running, dpc, now>>
    /\ UNCHANGED nonCacheVars

\* lines 248-251 (and the i++ of line 240 when the chain is done): the age
\* of curr against entry_expired_time_ms, read without the node's lock
GcInner ==
    /\ gpc = "inner"
    /\ IF gcurr = NULL
       THEN gi' = gi + 1 /\ gpc' = "bucket" /\ gnext' = NULL /\ UNCHANGED faults
       ELSE /\ faults' = faults \cup Deref(gcurr) \cup CacheDeref
            /\ gpc' = IF TimeDiffMs(gtime, ntime[gcurr]) >= ExpiredTimeMs
                      THEN "expired" ELSE "fresh"
            /\ UNCHANGED <<gi, gnext>>
    /\ UNCHANGED <<heapVars, callVars, gcurr, gtime, gwake, scans, gheld,
                   running, dpc, now>>
    /\ UNCHANGED nonCacheVars

\* lines 252-256: under curr's read lock, next = curr->next and the request
\* of curr's entry
GcExpired ==
    /\ gpc = "expired"
    /\ faults' = faults \cup Deref(gcurr)
    /\ gnext' = nnext[gcurr]
    /\ ckey' = [ckey EXCEPT ![Collector] = nkey[gcurr]]
    /\ gpc' = "call_delete"
    /\ UNCHANGED <<heapVars, cpc, cidx, ccurr, cprev, cres, gi, gcurr, gtime,
                   gwake, scans, gheld, running, dpc, now>>
    /\ UNCHANGED nonCacheVars

\* line 258: cache_delete(cache, request, request_len); its steps are those
\* of cache_delete, taken by the collector
GcCallDelete ==
    /\ gpc = "call_delete"
    /\ DeleteEnter(Collector, ckey[Collector])
    /\ gpc' = "deleting"
    /\ UNCHANGED <<heapVars, gi, gcurr, gnext, gtime, gwake, scans, gheld,
                   running, dpc, now, faults>>
    /\ UNCHANGED nonCacheVars

\* line 265 after the cache_delete has returned: curr = next
GcAfterDelete ==
    /\ gpc = "deleting"
    /\ cpc[Collector] = "idle"
    /\ gcurr' = gnext
    /\ gpc' = "inner"
    /\ UNCHANGED <<heapVars, callVars, gi, gnext, gtime, gwake, scans, gheld,
                   running, dpc, now, faults>>
    /\ UNCHANGED nonCacheVars

\* lines 260-265: under curr's read lock next = curr->next; curr = next
GcFresh ==
    /\ gpc = "fresh"
    /\ faults' = faults \cup Deref(gcurr)
    /\ gnext' = nnext[gcurr]
    /\ gcurr' = nnext[gcurr]
    /\ gpc' = "inner"
    /\ UNCHANGED <<heapVars, callVars, gi, gtime, gwake, scans, gheld, running, dpc,
                   now>>
    /\ UNCHANGED nonCacheVars

\* One millisecond passes.
Tick ==
    /\ now < MaxTime
    /\ now' = now + 1
    /\ UNCHANGED <<heapVars, callVars, gcVars, running, dpc, faults>>
    /\ UNCHANGED nonCacheVars

\* The nodes a walk from address a passes, in the order it passes them; a
\* walk passes at most n nodes.
RECURSIVE ChainFrom(_, _)
ChainFrom(a, n) ==
    IF a = NULL \/ n = 0 THEN <<>> ELSE <<a>> \o ChainFrom(nnext[a], n - 1)

\* The chain of bucket b, from cache->array[b].
Chain(b) == ChainFrom(array[b], MaxNodes)

\* Node a is in the cache: a walk of some bucket passes it.
InCache(a) == \E b \in Buckets : \E i \in 1..Len(Chain(b)) : Chain(b)[i] = a

(***************************************************************************)
(* cache_destroy (lines 156-188)                                           *)
(***************************************************************************)
\* line 162: garbage_collector_running = 0, written without a lock
CacheDestroyStart ==
    /\ dpc = "idle"
    /\ running' = FALSE
    /\ dpc' = "grace"
    /\ UNCHANGED <<heapVars, callVars, gcVars, now, faults>>
    /\ UNCHANGED nonCacheVars

\* lines 164-174: the wait ends when the collector thread is gone or when the
\* five seconds are over, whichever is first; then the thread is detached
CacheDestroyGrace ==
    /\ dpc = "grace"
    /\ dpc' = "walk"
    /\ UNCHANGED <<heapVars, callVars, gcVars, running, now, faults>>
    /\ UNCHANGED nonCacheVars

\* lines 176-187: cache_node_destroy for every node a walk of the buckets
\* passes, then the array and the cache are freed
CacheDestroyWalk ==
    /\ dpc = "walk"
    /\ nstate' = [a \in Addrs |-> IF InCache(a) THEN "freed" ELSE nstate[a]]
    /\ faults' = faults \cup
           UNION {NodeDestroyFaults(a, readers[a]) : a \in {n \in Addrs : InCache(n)}}
    /\ dpc' = "done"
    /\ UNCHANGED <<array, nkey, nnext, ntime, readers, nextNode, callVars,
                   gcVars, running, now>>
    /\ UNCHANGED nonCacheVars

DestroyStep == CacheDestroyGrace \/ CacheDestroyWalk

(***************************************************************************)
(* Specifications of the cache                                             *)
(***************************************************************************)
\* The steps of a call in progress.
GetStep(t) ==
    \/ CacheGetLoop(t)
    \/ CacheGetCompare(t)
    \/ CacheGetReturn(t)

AddStep(t) ==
    \/ CacheAddLink(t)
    \/ CacheAddPublish(t)

DeleteStep(t) ==
    \/ CacheDeleteLoop(t)
    \/ CacheDeleteCompare(t)
    \/ CacheDeleteUnlink(t)
    \/ CacheDeleteDestroy(t)

\* the steps of a client's call in progress
CallStep(t) == GetStep(t) \/ AddStep(t) \/ DeleteStep(t)

GcStep ==
    \/ GcLoop
    \/ GcWake
    \/ GcBucket
    \/ GcLockHead
    \/ GcInner
    \/ GcExpired
    \/ GcCallDelete
    \/ GcAfterDelete
    \/ GcFresh
    \/ DeleteStep(Collector)
    \/ CacheDeleteRelock(Collector)

\* One client and nothing else: the calls run one after another.
SeqKeys == {KeyB, KeyZ1, KeyZ2}

SeqNext ==
    \/ \E k \in SeqKeys : CacheGetStart(1, k)
    \/ \E k \in SeqKeys : CacheAddStart(1, k)
    \/ \E k \in SeqKeys : CacheDeleteStart(1, k)
    \/ CallStep(1)

SeqSpec == Init /\ [][SeqNext]_vars /\ WF_vars(CallStep(1))

\* Two clients whose calls of cache_get, cache_add and cache_delete
\* interleave step by step; no collector.
CacheKeys == {KeyA, KeyB}

CacheNext ==
    \/ \E t \in Clients, k \in CacheKeys : CacheGetStart(t, k)
    \/ \E t \in Clients, k \in CacheKeys : CacheAddStart(t, k)
    \/ \E t \in Clients, k \in CacheKeys : CacheDeleteStart(t, k)
    \/ \E t \in Clients : CallStep(t)

CacheSpec ==
    /\ Init
    /\ [][CacheNext]_vars
    /\ \A t \in Clients : WF_vars(CallStep(t))

\* Strict insertion: a client calls cache_add for a request only when its
\* own cache_get for that request has just returned NULL.
StrictAddStart(t) ==
    /\ cres[t].op = "get"
    /\ cres[t].val = NULL
    /\ CacheAddStart(t, cres[t].key)

StrictNext ==
    \/ \E t \in Clients, k \in CacheKeys : CacheGetStart(t, k)
    \/ \E t \in Clients : StrictAddStart(t)
    \/ \E t \in Clients : GetStep(t)
    \/ \E t \in Clients : AddStep(t)

StrictSpec ==
    /\ Init
    /\ [][StrictNext]_vars
    /\ \A t \in Clients : WF_vars(GetStep(t) \/ AddStep(t))

\* One client that adds and looks up, the garbage collector, and the clock.
GcKeys == {KeyA, KeyB}

GcNext ==
    \/ \E k \in GcKeys : CacheGetStart(1, k)
    \/ \E k \in GcKeys : CacheAddStart(1, k)
    \/ GetStep(1)
    \/ AddStep(1)
    \/ GcStep
    \/ Tick

\* The client finishes the calls it makes, the collector thread runs (and
\* gets a lock it waits for if the lock is free again and again), and time
\* passes.
GcFairness ==
    /\ WF_vars(GetStep(1) \/ AddStep(1))
    /\ SF_vars(GcStep)
    /\ WF_vars(Tick)

GcSpec == Init /\ [][GcNext]_vars /\ GcFairness

\* One client that adds, the garbage collector, the clock, and the owner of
\* the cache, who calls cache_destroy once; the client starts no call after
\* that.
StopAddStart(k) == dpc = "idle" /\ CacheAddStart(1, k)

StopNext ==
    \/ \E k \in GcKeys : StopAddStart(k)
    \/ AddStep(1)
    \/ GcStep
    \/ Tick
    \/ CacheDestroyStart
    \/ DestroyStep

StopFairness ==
    /\ WF_vars(AddStep(1))
    /\ SF_vars(GcStep)
    /\ WF_vars(Tick)
    /\ WF_vars(DestroyStep)

StopSpec == Init /\ [][StopNext]_vars /\ StopFairness

(***************************************************************************)
(* The cache entry: append, complete and subscribe.  Every access to the   *)
(* response message is made under the coordinator's mutex, so each call's  *)
(* critical section is one step; a subscriber that waits releases the      *)
(* mutex and waits in one step (a condition wait) and is woken by the      *)
(* signals of append and complete.                                         *)
(***************************************************************************)
\* all waiters on the readiness coordinator are signalled
WakeAll(pcs) == [s \in Subscribers |-> IF pcs[s] = "waiting" THEN "ready" ELSE pcs[s]]

\* append(entry, bytes): append to the response, then signal all waiters;
\* not called after complete
EntryAppend(b) ==
    /\ ~complete
    /\ Len(response) < MaxBlocks
    /\ response' = Append(response, b)
    /\ spc' = WakeAll(spc)
    /\ UNCHANGED <<complete, cursor, seen>>
    /\ UNCHANGED nonEntryVars

\* complete(entry): mark the response complete and signal all waiters
EntryComplete ==
    /\ ~complete
    /\ complete' = TRUE
    /\ spc' = WakeAll(spc)
    /\ UNCHANGED <<response, cursor, seen>>
    /\ UNCHANGED nonEntryVars

\* a thread begins to subscribe, with its cursor at the start
EntrySubscribeStart(s) ==
    /\ spc[s] = "idle"
    /\ spc' = [spc EXCEPT ![s] = "ready"]
    /\ UNCHANGED <<response, complete, cursor, seen>>
    /\ UNCHANGED nonEntryVars

\* a subscribe that tests complete before it looks for new bytes
EntrySubscribe_EofFirst(s) ==
    /\ spc[s] = "ready"
    /\ IF complete
       THEN spc' = [spc EXCEPT ![s] = "eof"] /\ UNCHANGED <<cursor, seen>>
       ELSE IF cursor[s] < Len(response)
       THEN /\ seen' = [seen EXCEPT ![s] =
                           @ \o SubSeq(response, cursor[s] + 1, Len(response))]
            /\ cursor' = [cursor EXCEPT ![s] = Len(response)]
            /\ UNCHANGED spc
       ELSE spc' = [spc EXCEPT ![s] = "waiting"] /\ UNCHANGED <<cursor, seen>>
    /\ UNCHANGED <<response, complete>>
    /\ UNCHANGED nonEntryVars

\* subscribe(entry, cursor): new bytes if cursor < len(response), with the
\* cursor advanced; eof if complete and drained; otherwise block on the
\* coordinator
EntrySubscribe(s) ==
    /\ spc[s] = "ready"
    /\ IF cursor[s] < Len(response)
       THEN /\ seen' = [seen EXCEPT ![s] =
                           @ \o SubSeq(response, cursor[s] + 1, Len(response))]
            /\ cursor' = [cursor EXCEPT ![s] = Len(response)]
            /\ UNCHANGED spc
       ELSE IF complete
       THEN spc' = [spc EXCEPT ![s] = "eof"] /\ UNCHANGED <<cursor, seen>>
       ELSE spc' = [spc EXCEPT ![s] = "waiting"] /\ UNCHANGED <<cursor, seen>>
    /\ UNCHANGED <<response, complete>>
    /\ UNCHANGED nonEntryVars

EntryNext ==
    \/ \E b \in Blocks : EntryAppend(b)
    \/ EntryComplete
    \/ \E s \in Subscribers : EntrySubscribeStart(s)
    \/ \E s \in Subscribers : EntrySubscribe(s)

\* A subscriber that can take a step of its subscribe takes it; when the
\* producer appends or completes, and when a thread subscribes, is up to
\* them.
EntrySpec ==
    /\ Init
    /\ [][EntryNext]_vars
    /\ \A s \in Subscribers : WF_vars(EntrySubscribe(s))

(***************************************************************************)
(* hash() on its own, for every request and capacity within the bounds     *)
(***************************************************************************)
\* The requests of at most n bytes.
RECURSIVE Requests(_)
Requests(n) ==
    IF n = 0 THEN {<<>>}
    ELSE Requests(n - 1)
             \cup {Append(r, b) : r \in {q \in Requests(n - 1) : Len(q) = n - 1},
                                  b \in HashBytes}

HashInit ==
    /\ PoolInit /\ CacheInit /\ EntryInit
    /\ hreq \in Requests(MaxHashLen)
    /\ hcap \in 1..MaxHashCapacity
    /\ hres = 0
    /\ hpc = "call"

\* lines 190-196: the call returns hash(request, request_len, size)
HashCall ==
    /\ hpc = "call"
    /\ hres' = hash(hreq, hcap)
    /\ hpc' = "done"
    /\ UNCHANGED <<hreq, hcap>>
    /\ UNCHANGED nonHashVars

HashSpec == HashInit /\ [][HashCall]_vars /\ WF_vars(HashCall)

(***************************************************************************)
(* Properties of the worker pool                                           *)
(***************************************************************************)
\* The calls held by the ring, oldest first: the `size` slots from `front`.
RingContents == [i \in 1..size |-> tasks[(front + i - 1) % QueueCapacity].arg]

\* C1: in every reachable state 0 <= size <= capacity, and front and rear
\* are indices of the ring (0..capacity-1).
C1_BoundedQueue ==
    /\ size \in 0..QueueCapacity
    /\ front \in Slots
    /\ rear \in Slots

\* The ring has been full with both indices wrapped round to a non-zero slot.
C1_Witness ==
    /\ size = QueueCapacity
    /\ front = rear
    /\ front # 0

\* The calls enqueued and not yet dequeued.
InQueue(c) == \E i \in 1..Len(pending) : pending[i] = c

\* No call's routine has been invoked twice, no executor holds a task whose
\* routine has already run or that another executor holds too, and the
\* ring holds exactly the calls enqueued and not yet dequeued, in order (no
\* slot was overwritten before it was dequeued, none is dequeued twice).
C2_Safety ==
    /\ \A c \in CallIds : runs[c] <= 1
    /\ \A e \in Executors : task[e].arg # 0 =>
          /\ runs[task[e].arg] = 0
          /\ ~InQueue(task[e].arg)
          /\ \A f \in Executors : f # e => task[f].arg # task[e].arg
    /\ RingContents = pending

\* C2: every enqueued task's routine is eventually invoked, exactly once and
\* by one executor, unless thread_pool_shutdown is called while the task is
\* still in the queue; no task runs twice and no enqueued slot is
\* overwritten before it is dequeued.
C2_NoLostTask ==
    /\ []C2_Safety
    /\ \A c \in CallIds :
          InQueue(c) ~> (runs[c] = 1 \/ (shutdown /\ InQueue(c)))

\* Every call was enqueued and run, with no shutdown.
C2_Witness ==
    /\ ~shutdown
    /\ \A c \in CallIds : runs[c] = 1

\* thread_pool_shutdown has set the flag and broadcast on both conditions.
BroadcastsDone == sdpc \in {"grace", "free", "done"}

\* C3: once thread_pool_shutdown has set the flag and broadcast on both
\* conditions, a submitter waiting (or about to wait) on not_full eventually
\* returns, and an executor waiting (or about to wait) on not_empty
\* eventually exits.
C3_ShutdownLiveness ==
    /\ \A s \in Submitters :
          (BroadcastsDone /\ pc[s] \in {"callwait", "wait_nf"}) ~> (pc[s] = "idle")
    /\ \A e \in Executors :
          (BroadcastsDone /\ pc[e] \in {"callwait", "wait_ne"}) ~> (pc[e] = "exited")

\* C10: the steps of a thread_pool_execute call that has observed the
\* shutdown flag (line 96 or line 105) leave size, front, rear and the task
\* slots unchanged, and when the call returns it does not hold the mutex.
C10_ShutdownNoEnqueue ==
    [][\A s \in Submitters :
          (/\ pc'[s] # pc[s]
           /\ \/ pc'[s] \in {"ret96", "ret105"}
              \/ pc[s] \in {"ret96", "ret105"})
          => /\ UNCHANGED <<tasks, size, front, rear, id_counter>>
             /\ pc'[s] = "idle" => mutex' # s]_vars

\* A submitter that waited on a full queue has woken, taken the mutex and
\* observed the shutdown flag at line 105.
C10_Witness ==
    \E s \in Submitters :
        /\ pc[s] = "ret105"
        /\ mutex = s
        /\ size = QueueCapacity

\* C12: tasks are dequeued in the order in which they were enqueued (the
\* order in which their submitters held the mutex at lines 110-114): the
\* task an executor takes is the oldest one enqueued and not yet dequeued.
C12_Fifo ==
    [][\A e \in Executors :
          (pc[e] = "dequeue" /\ pc'[e] = "run")
              => /\ pending # <<>>
                 /\ task'[e].arg = Head(pending)
                 /\ pending' = Tail(pending)]_vars

\* Two calls were enqueued in the opposite order of their entry into
\* thread_pool_execute; the first enqueued has been dequeued, the other is
\* still in the ring.
C12_Witness ==
    \E e \in Executors :
        /\ pc[e] = "run"
        /\ task[e].arg = 2
        /\ pending = <<1>>

\* C19: nothing touches the pool after thread_pool_shutdown has freed it,
\* and when thread_pool_shutdown reaches its free step every executor has
\* exited, an executor that was inside a task routine at the call included.
C19_NoUseAfterShutdownFree ==
    /\ ~uaf
    /\ sdpc \in {"free", "done"} => \A e \in Executors : pc[e] = "exited"

(***************************************************************************)
(* Properties of the cache                                                 *)
(***************************************************************************)
\* Node a is referenced by a bucket head or by a surviving node's next.
Referenced(a) ==
    \/ \E b \in Buckets : array[b] = a
    \/ \E n \in Addrs : nstate[n] = "live" /\ nnext[n] = a

\* C4: when every writer adds a fingerprint only after its own cache_get
\* for it returned absent, no two nodes in the cache hold equal
\* fingerprints, in any reachable state and for concurrent writers.
C4_UniqueFingerprints ==
    \A a, b \in Addrs :
        (a # b /\ InCache(a) /\ InCache(b)) => nkey[a] # nkey[b]

\* Thread t is between two nodes of a bucket walk: it has left prev and is
\* about to lock curr.
Stepping(t) ==
    /\ cpc[t] \in {"get_loop", "del_loop"}
    /\ cprev[t] # NULL
    /\ ccurr[t] # NULL

\* C5: a node a walker of cache_get or cache_delete has stepped to is not
\* destroyed beneath it by a concurrent cache_delete, so the walker never
\* locks or reads a destroyed node.
C5_HandOverHand ==
    [][\A t \in Clients :
          (Stepping(t) /\ nstate[ccurr[t]] = "live")
              => nstate'[ccurr[t]] = "live"]_vars

\* The time since node a was added or last returned by cache_get, and the
\* collector's tick, in milliseconds.
Age(a) == now - ntime[a]
TickMs == SleepUs \div 1000

Inactive(a) ==
    /\ nstate[a] = "live"
    /\ InCache(a)
    /\ Age(a) >= ExpiredTimeMs + TickMs

Collected(a) == nstate[a] = "freed" /\ ~Referenced(a)

\* C6: every node in the cache that has had no successful cache_get for
\* expiry plus one tick, with the collector asleep before a further scan,
\* is eventually unlinked from its bucket and destroyed (unless a cache_get
\* makes it active again), wherever it is in its chain.
C6_ExpirerCollects ==
    \A a \in Addrs :
        (Inactive(a) /\ gpc = "sleep" /\ scans < MaxScans)
            ~> (Collected(a) \/ (nstate[a] = "live" /\ ~Inactive(a)))

\* The last call of thread t was a cache_delete that returned SUCCESS.
DeleteReturnedOK(t) ==
    /\ cpc[t] = "idle"
    /\ cres[t].op = "delete"
    /\ cres[t].val = SUCCESS

\* C7: after cache_delete has returned SUCCESS, no bucket head and no
\* surviving node's next refers to a destroyed node, and every node that
\* was added and not deleted is still in its bucket's chain.
C7_DeleteUnlinks ==
    DeleteReturnedOK(1) =>
        /\ \A a \in Addrs : nstate[a] = "freed" => ~Referenced(a)
        /\ \A a \in Addrs : nstate[a] = "live" => InCache(a)

\* The last call of thread t was a cache_get.
GetReturned(t) == cpc[t] = "idle" /\ cres[t].op = "get"

\* The nodes in the cache that hold fingerprint k, and the one of a set of
\* nodes that was added last (addresses are handed out in order).
Holding(k) == {a \in Addrs : nstate[a] = "live" /\ InCache(a) /\ nkey[a] = k}
Newest(S) == CHOOSE a \in S : \A b \in S : b <= a

\* C8: with no node deleted, a cache_get for a fingerprint that has been
\* added returns an entry with that fingerprint, the most recently added
\* one.
C8_GetAfterAdd ==
    (/\ GetReturned(1)
     /\ \A a \in Addrs : nstate[a] # "freed"
     /\ Holding(cres[1].key) # {})
        => cres[1].val = Newest(Holding(cres[1].key))

\* C9: at the comparison of lines 78 and 131, the stored and the requested
\* fingerprint are taken for equal exactly when they have the same length
\* and the same bytes, zero bytes included.
C9_EqualIffIdentical ==
    \A t \in CacheThreads :
        cpc[t] \in {"get_cmp", "del_cmp"}
            => (RequestMatches(nkey[ccurr[t]], ckey[t])
                    <=> nkey[ccurr[t]] = ckey[t])

\* Thread t holds the entry of node a: its last call was a cache_get that
\* returned it (line 81), and it has made no call since.
Holds(t, a) == GetReturned(t) /\ cres[t].val = a

\* C11: an entry returned by cache_get is not reclaimed while the thread
\* it was returned to still holds it, also when its node is deleted.
C11_EntryOutlivesNode ==
    [][\A t \in Clients : \A a \in Addrs :
          (Holds(t, a) /\ nstate[a] = "live") => nstate'[a] = "live"]_vars

\* C13: a successful cache_get sets the matched node's last-activity time
\* to the current time, and the collector destroys a node last active
\* before the scan's time only if that node's own age at the scan's time
\* is at least the expiry time.
C13_ExpirerRemovesOnlyExpired ==
    [][/\ \A t \in Clients :
             (cpc[t] = "get_cmp" /\ cpc'[t] = "get_ret")
                 => ntime'[ccurr[t]] = now
       /\ \A a \in Addrs :
             (/\ cpc[Collector] = "del_destroy"
              /\ nstate[a] = "live"
              /\ nstate'[a] = "freed"
              /\ ntime[a] < gtime)
                 => TimeDiffMs(gtime, ntime[a]) >= ExpiredTimeMs]_vars

\* No node in the cache holds fingerprint k.
Absent(k) == \A a \in Addrs : InCache(a) => nkey[a] # k

\* C14: for a fingerprint no node in the cache holds, no step of
\* cache_delete changes a bucket head, a link or a node, and the call
\* returns NOT_FOUND holding no node lock; no step of cache_get changes a
\* last-activity time, and the call returns NULL.
C14_AbsentFingerprint ==
    [][/\ (/\ cpc[1] \in {"del_loop", "del_cmp", "del_wrlock", "del_destroy"}
           /\ Absent(ckey[1]))
          => /\ UNCHANGED <<array, nnext, nstate>>
             /\ cpc'[1] = "idle"
                   => /\ cres'[1].val = NOT_FOUND
                      /\ \A a \in Addrs : readers'[a] = 0
       /\ (/\ cpc[1] \in {"get_loop", "get_cmp", "get_ret"}
           /\ Absent(ckey[1]))
          => /\ UNCHANGED ntime
             /\ cpc'[1] = "idle" => cres'[1].val = NULL]_vars

\* Sequence p is a prefix of sequence q.
IsPrefix(p, q) == Len(p) <= Len(q) /\ p = SubSeq(q, 1, Len(p))

\* C15: what a subscriber has been given is always the blocks appended so
\* far, in the order appended, up to some point; a subscriber is given eof
\* only after it has been given every block appended; and once the
\* producer has completed the entry, every subscriber in a subscribe is
\* eventually given eof.
C15_SubscriberVisibility ==
    /\ [](\A s \in Subscribers :
             /\ IsPrefix(seen[s], response)
             /\ spc[s] = "eof" => (complete /\ seen[s] = response))
    /\ \A s \in Subscribers :
          (complete /\ spc[s] # "idle") ~> (spc[s] = "eof")

\* Both subscribers have been given two different blocks and then eof, one
\* of them having subscribed only after the first block was appended.
C15_Witness ==
    /\ response = <<1, 2>>
    /\ \A s \in Subscribers : spc[s] = "eof" /\ seen[s] = <<1, 2>>

\* h = 0; h = (h * 31 + byte_i) mod capacity, for the bytes as the code
\* reads them.
RECURSIVE ModHashFrom(_, _, _, _)
ModHashFrom(request, i, h, n) ==
    IF i > Len(request) THEN h
    ELSE ModHashFrom(request, i + 1, (h * 31 + SignedChar(request[i])) % n, n)

\* C16: for every request and every positive capacity, hash returns the
\* value of h = 0; h = (h * 31 + byte_i) mod capacity, which is an index
\* of the bucket array (0..capacity-1).
C16_HashInRange ==
    hpc = "done" =>
        /\ hres = ModHashFrom(hreq, 1, 0, hcap)
        /\ hres \in 0..(hcap - 1)

\* C17: once cache_destroy has cleared the running flag, the collector
\* thread leaves its loop: no scan blocks for ever on a node's lock, the
\* lock it holds itself when it calls cache_delete included.
C17_ExpirerExits == (~running) ~> (gpc = "exited")

\* The cache_add that made node a has returned.
Added(a) ==
    /\ nstate[a] # "unallocated"
    /\ \A t \in CacheThreads :
          ~(cpc[t] \in {"add_link", "add_publish"} /\ ccurr[t] = a)

\* A cache_delete has matched node a (line 131) and is taking it out.
Deleting(a) ==
    \E t \in CacheThreads :
        cpc[t] \in {"del_wrlock", "del_deadlock", "del_destroy"} /\ ccurr[t] = a

\* C18: whatever the interleaving of cache_add calls with each other and
\* with a cache_delete of the bucket's head, every node whose cache_add has
\* returned and that no cache_delete has taken is reached by a walk from its
\* bucket head: no insert is lost.
C18_NoLostInsert ==
    \A a \in Addrs :
        (Added(a) /\ nstate[a] = "live" /\ ~Deleting(a)) => InCache(a)

\* C20: a node is destroyed at most once and never while a thread holds its
\* lock: of two cache_delete calls for one fingerprint exactly one destroys
\* the node, and a cache_delete racing a cache_get that holds the node's
\* read lock destroys it only after that lock is released.
C20_DestroyOnceUnlocked ==
    /\ "double_free" \notin faults
    /\ "destroy_locked" \notin faults

====
